---- MODULE Spec2Model ----
(***************************************************************************)
(* Client-side session / authorization layer of the support dashboard:     *)
(* the zustand auth store, the axios adapter with its interceptors, the    *)
(* authService functions (login, logout, isTokenValid, refreshToken), the  *)
(* App rehydration effect, the sign-in page and the ProtectedRoute guard.  *)
(***************************************************************************)
EXTENDS Integers, FiniteSets, Sequences, Bags, TLC

VARIABLES
  token,          \* localStorage item 'token'
  defaultAuth,    \* api.defaults.headers.common['Authorization']
  store,          \* useAuthStore state: isAuthenticated, user, selectedCompanyId
  isInitializing, \* App component state
  effectDep,      \* isAuthenticated value of the last run of the App effect
  location,       \* path of the router location
  calls,          \* bag of unfinished /auth/me and /auth/login calls
  pending,        \* number of other requests in flight
  toasts,         \* session-expired notifications shown by this page
  hrefs,          \* assignments to window.location.href made by this page
  queries,        \* the query cache: one query per query key
  form,           \* SignUpStepper component state and the requests it issued
  filters,        \* AllTicketsPage component state: the ticket filters
  ticketsQuery,   \* AllTicketsPage: the result of its useQuery
  last            \* the operation that produced the current state

vars == <<token, defaultAuth, store, isInitializing, effectDep, location,
          calls, pending, toasts, hrefs, queries, form,
          filters, ticketsQuery, last>>

----------------------------------------------------------------------------
(* Bounds of the model *)

\* Requests of the screens that can be in flight together.
MaxRequests == 2

\* /auth/me and /auth/login calls that can be unfinished together.
MaxCalls == 1

----------------------------------------------------------------------------
(* Values *)

Absent == "absent"

Roles == {"superAdmin", "admin", "employee"}

Companies == {"T1", "T2"}

NoUser == [present |-> FALSE, role |-> "", company_id |-> Absent,
           department_id |-> Absent]

MkUser(r, c, d) == [present |-> TRUE, role |-> r, company_id |-> c,
                    department_id |-> d]

\* User records the backend can return: the three roles of the User type,
\* a record without role, and a role outside the type.
Users ==
  { MkUser("superAdmin", Absent, Absent),
    MkUser("admin", "T1", Absent),
    MkUser("employee", "T1", "D1"),
    MkUser("employee", "T1", Absent),
    MkUser("", "T1", Absent),
    MkUser("guest", Absent, Absent) }

\* The user records the backend answers /auth/me and /auth/login with.
BackendUsers == {u \in Users : u.role # "guest"}

NoToken == "none"

\* Stored token strings: two live JWTs, one whose exp has passed, and one
\* that jwtDecode cannot decode.
Tokens == {"t1", "t2", "tExpired", "tJunk"}

\* Paths of the route tables of App.
ProtectedPaths ==
  { "/tickets", "/ticket/:ticketId", "/profile", "/admin/select-company",
    "/admin/company-dashboard", "/admin/analytics-dashboard",
    "/employee/dashboard", "/admin/team", "/admin/dummy-create-ticket",
    "/admin/documentation" }

PublicPaths == {"/", "/product", "/company", "/login", "/signup"}

Paths == ProtectedPaths \cup PublicPaths

\* The role prop of ProtectedRoute: not given, one role string, or an array.
NoRole == [kind |-> "none", roles |-> {}]

SingleRole(r) == [kind |-> "single", roles |-> {r}]

RoleList(rs) == [kind |-> "list", roles |-> rs]

RoleProps ==
  {NoRole} \cup {SingleRole(r) : r \in Roles}
           \cup {RoleList(rs) : rs \in {s \in SUBSET Roles : Cardinality(s) >= 2}}

\* The role prop each protected route of App passes to ProtectedRoute.
RouteRole(path) ==
  CASE path \in {"/tickets", "/ticket/:ticketId"} -> RoleList({"admin", "employee"})
    [] path = "/profile" -> NoRole
    [] path \in {"/admin/select-company", "/admin/company-dashboard"} -> SingleRole("superAdmin")
    [] path \in {"/admin/analytics-dashboard", "/admin/team"} -> SingleRole("admin")
    [] path = "/employee/dashboard" -> SingleRole("employee")
    [] OTHER -> RoleList({"admin", "superAdmin"})

----------------------------------------------------------------------------
(* The auth store *)

EmptyStore == [isAuthenticated |-> FALSE, user |-> NoUser,
               selectedCompanyId |-> Absent]

setUser(st, u) == [st EXCEPT !.user = u]

setIsAuthenticated(st, b) == [st EXCEPT !.isAuthenticated = b]

setSelectedCompanyId(st, c) == [st EXCEPT !.selectedCompanyId = c]

\* clearAuth that resets the user and the flag only.
clearAuth_KeepsCompany(st) ==
  [st EXCEPT !.isAuthenticated = FALSE, !.user = NoUser]

clearAuth(st) == [st EXCEPT !.isAuthenticated = FALSE, !.user = NoUser,
                            !.selectedCompanyId = Absent]

Stores == [isAuthenticated : BOOLEAN, user : Users \cup {NoUser},
           selectedCompanyId : Companies \cup {Absent}]

----------------------------------------------------------------------------
(* The route guard *)

NavigateTo(to, from) == [kind |-> "navigate", to |-> to, from |-> from]

Children == [kind |-> "children", to |-> Absent, from |-> Absent]

\* Landing screens with the admin sent to the route SelectCompanyPage uses.
RoleLanding_Legacy(userRole) ==
  IF userRole = "superAdmin" THEN "/admin/select-company"
  ELSE IF userRole = "admin" THEN "/admin/dashboard"
  ELSE "/"

\* The landing screen of a role, used on a role mismatch.
RoleLanding(userRole) ==
  IF userRole = "superAdmin" THEN "/admin/select-company"
  ELSE IF userRole = "admin" THEN "/admin/analytics-dashboard"
  ELSE IF userRole = "employee" THEN "/"
  ELSE "/"

\* The guard with the role match checked before the corrupted-session check.
ProtectedRoute_RoleCheckFirst(st, role, path) ==
  IF ~st.isAuthenticated
    THEN [store |-> st, out |-> NavigateTo("/login", path)]
  ELSE IF role.kind # "none" /\ st.user.role \notin role.roles
    THEN [store |-> st, out |-> NavigateTo(RoleLanding(st.user.role), Absent)]
  ELSE IF ~st.user.present \/ st.user.role = ""
    THEN [store |-> clearAuth(st), out |-> NavigateTo("/login", path)]
  ELSE [store |-> st, out |-> Children]

\* The guard comparing the role prop to the user's role as one string, so
\* that an array prop never matches.
ProtectedRoute_ListUnsupported(st, role, path) ==
  IF ~st.isAuthenticated
    THEN [store |-> st, out |-> NavigateTo("/login", path)]
  ELSE IF ~st.user.present \/ st.user.role = ""
    THEN [store |-> clearAuth(st), out |-> NavigateTo("/login", path)]
  ELSE IF role.kind # "none"
          /\ (role.kind = "list" \/ st.user.role \notin role.roles)
    THEN [store |-> st, out |-> NavigateTo(RoleLanding(st.user.role), Absent)]
  ELSE [store |-> st, out |-> Children]

\* The guard redirecting an unauthenticated visitor without state.from.
ProtectedRoute_NoFrom(st, role, path) ==
  IF ~st.isAuthenticated
    THEN [store |-> st, out |-> NavigateTo("/login", Absent)]
  ELSE IF ~st.user.present \/ st.user.role = ""
    THEN [store |-> clearAuth(st), out |-> NavigateTo("/login", path)]
  ELSE IF role.kind # "none" /\ st.user.role \notin role.roles
    THEN [store |-> st, out |-> NavigateTo(RoleLanding(st.user.role), Absent)]
  ELSE [store |-> st, out |-> Children]

\* One evaluation of ProtectedRoute: the store it leaves and what it returns.
ProtectedRoute(st, role, path) ==
  IF ~st.isAuthenticated
    THEN [store |-> st, out |-> NavigateTo("/login", path)]
  ELSE IF ~st.user.present \/ st.user.role = ""
    THEN [store |-> clearAuth(st), out |-> NavigateTo("/login", path)]
  ELSE IF role.kind # "none" /\ st.user.role \notin role.roles
    THEN [store |-> st, out |-> NavigateTo(RoleLanding(st.user.role), Absent)]
  ELSE [store |-> st, out |-> Children]

----------------------------------------------------------------------------
(* Query keys and the query cache *)

\* Network calls the query functions can make in one run of a page.
MaxFetches == 3

\* A query key: ['allTickets', queryParams] or ['ticket', ticketId]. As a
\* filter of invalidateQueries the key ['allTickets'] has no second element.
QueryKey(kind, arg) == [kind |-> kind, arg |-> arg]

NoKey == QueryKey("", "")

TicketParams == {"page=1", "page=2"}

TicketIds == {"tk1"}

QueryKeys ==
  { QueryKey("allTickets", p) : p \in TicketParams }
    \cup { QueryKey("ticket", i) : i \in TicketIds }

\* Components that observe a query key at the same time.
Observers == {"o1", "o2"}

\* A query of the cache: the call whose response is the cached data (0:
\* none), the number of calls made, the call the query waits for (0: none),
\* the calls still on the network, the observers waiting, and whether the
\* query is invalidated or was fetched again by an invalidation.
NoQuery == [data |-> 0, issued |-> 0, current |-> 0, inflight |-> {},
            waiting |-> {}, invalidated |-> FALSE, refetched |-> FALSE]

NoQueries == [k \in QueryKeys |-> NoQuery]

RECURSIVE CallsMade(_, _)
\* The network calls made for the keys of the set ks.
CallsMade(qs, ks) ==
  IF ks = {} THEN 0
  ELSE LET k == CHOOSE x \in ks : TRUE
       IN qs[k].issued + CallsMade(qs, ks \ {k})

----------------------------------------------------------------------------
(* Pagination parameters of getTickets *)

\* The largest page and limit the screens pass in the model.
MaxPage == 4

MaxLimit == 15

\* The limit getTickets computes the offset with when none is given.
DefaultLimit == 15

\* An optional number: undefined, or the number n.
Undefined == [defined |-> FALSE, n |-> 0]

Num(n) == [defined |-> TRUE, n |-> n]

\* x || d of JavaScript for an optional number x: d for undefined and for 0.
OrElse(x, d) == IF x.defined /\ x.n # 0 THEN x.n ELSE d

\* The pagination fields of GetTicketsParams and of the wire parameters.
MkParams(page, limit, offset) == [page |-> page, limit |-> limit, offset |-> offset]

NoParams == MkParams(Undefined, Undefined, Undefined)

\* getTickets with the offset of a one-based page taken as page * limit.
getTickets_PageTimesLimit(params) ==
  MkParams(Undefined,
           params.limit,
           IF params.page.defined
             THEN Num(OrElse(params.page, 1) * OrElse(params.limit, DefaultLimit))
             ELSE Undefined)

\* getTickets: page and limit are taken out of the parameters; limit is
\* sent when defined, and offset, computed from page, when page is defined.
getTickets(params) ==
  MkParams(Undefined,
           params.limit,
           IF params.page.defined
             THEN Num((OrElse(params.page, 1) - 1)
                        * OrElse(params.limit, DefaultLimit))
             ELSE Undefined)

\* The largest total the backend reports in the model.
MaxTotal == 45

\* Math.ceil(a / b) for a >= 0 and b >= 1.
Ceil(a, b) == (a + b - 1) \div b

\* The pagination fields of the TicketsResponse getTickets returns.
MkResponse(total, page, limit, totalPages) ==
  [total |-> total, page |-> page, limit |-> limit, totalPages |-> totalPages]

NoResponse == MkResponse(0, 0, 0, 0)

\* getTickets with totalPages rounded down.
getTicketsReturn_RoundsDown(params, total) ==
  MkResponse(total, OrElse(params.page, 1), OrElse(params.limit, DefaultLimit),
             total \div OrElse(params.limit, DefaultLimit))

\* What getTickets returns for a response with the given total: page and
\* limit of the request, or 1 and 15, and totalPages computed from the total.
getTicketsReturn(params, total) ==
  MkResponse(total, OrElse(params.page, 1), OrElse(params.limit, DefaultLimit),
             Ceil(total, OrElse(params.limit, DefaultLimit)))

----------------------------------------------------------------------------
(* Token storage and the api instance *)

\* isTokenValid: a token is stored, jwtDecode decodes it, exp is in the future.
isTokenValid(t) == t \in {"t1", "t2"}

\* The access tokens POST /auth/login hands out.
IssuedTokens == {"t1", "t2"}

\* The Authorization header a request leaves with: the request interceptor
\* writes the stored token over the default header of the api instance.
RequestHeader == IF token # NoToken THEN token ELSE defaultAuth

\* A call: who awaits it (kind), how far it got (phase), whether it was
\* fulfilled (ok), and the user its service function returned.
Issue(kind) == [kind |-> kind, phase |-> "inflight", ok |-> FALSE,
                data |-> NoUser]

Calls == BagToSet(calls)

HasFree == BagCardinality(calls) < MaxCalls

\* A service function has returned and its caller resumes in the next
\* microtask: no response and no event of the user is handled before that.
Settling == \E c \in Calls : c.phase = "returned"

\* The bag of calls with call c replaced by d, or added, or removed.
Replaced(c, d) == (calls (-) SetToBag({c})) (+) SetToBag({d})

Added(d) == calls (+) SetToBag({d})

Removed(c) == calls (-) SetToBag({c})

NoHrefs == [hook |-> 0, logout |-> 0]

Unloading == hrefs.hook + hrefs.logout > 0

----------------------------------------------------------------------------
(* Component state of the screens *)

\* SignUpStepper: the company profile file of the form data, isLoading,
\* submitError, what handleSubmit waits for, and the requests it issued.
\* adminUser is what the awaited registerAdmin gave handleSubmit.
NoForm ==
  [companyProfile |-> FALSE, isLoading |-> FALSE, submitError |-> "",
   waits |-> "", adminUser |-> "", requests |-> <<>>]

\* AllTicketsPage: the filters a freshly mounted page starts with.
initialFilters ==
  [page |-> 1, limit |-> DefaultLimit, search |-> "", sortBy |-> "created_at",
   sortOrder |-> "desc", status |-> Absent, priority |-> Absent,
   departmentId |-> Absent]

\* The parameters of GET /tickets/ on the wire.
MkApiParams(company_id, department_id, search, status, priority, limit, offset, sort_by, sort_order) ==
  [company_id |-> company_id, department_id |-> department_id,
   search |-> search, status |-> status, priority |-> priority,
   limit |-> limit, offset |-> offset, sort_by |-> sort_by,
   sort_order |-> sort_order]

NoApiParams ==
  MkApiParams(Absent, Absent, Absent, Absent, Absent, Undefined, Undefined,
              Absent, Absent)

\* The filters with the companyId and departmentId the page puts in.
MkQueryParams(f, companyId, departmentId) ==
  [page |-> f.page, limit |-> f.limit, search |-> f.search,
   sortBy |-> f.sortBy, sortOrder |-> f.sortOrder, status |-> f.status,
   priority |-> f.priority, companyId |-> companyId,
   departmentId |-> departmentId]

\* The result of the useQuery of AllTicketsPage: the queryParams of its key,
\* the request last issued for it, isFetching and the data displayed. This
\* is the query of a page that is not mounted or whose query is disabled.
NoTicketsQuery ==
  [params |-> MkQueryParams([initialFilters EXCEPT !.page = 0], Absent, Absent),
   request |-> NoApiParams, isFetching |-> FALSE, data |-> NoResponse]

\* The record kept of the operation that produced the current state: its
\* name, its outcome, the response status and user it handled, and for a
\* guard evaluation the role prop, the result, and the store and path before.
\* For a response handled by the interceptor it also keeps the kind, the
\* number and the text of the notifications and the token from before; for
\* an operation of the query cache the query key and the observers served;
\* for a call of getTickets its parameters, the parameters on the wire and
\* the TicketsResponse it returned; for a handler of the ticket list the
\* filters from before.
Record(op, res, status, user, role, out, pre, prePath) ==
  [op |-> op, res |-> res, status |-> status, user |-> user, role |-> role,
   out |-> out, pre |-> pre, prePath |-> prePath, toast |-> "", shown |-> 0,
   text |-> "", preToken |-> NoToken, key |-> NoKey, observers |-> {},
   params |-> NoParams, wire |-> NoParams, returned |-> NoResponse,
   filters |-> initialFilters]

Did(op, res, status, user) ==
  Record(op, res, status, user, NoRole, Children, EmptyStore, Absent)

BoolName(b) == IF b THEN "true" ELSE "false"

----------------------------------------------------------------------------
(* Page load *)

Fresh(path) ==
  /\ defaultAuth = NoToken
  /\ store = EmptyStore
  /\ isInitializing = TRUE
  /\ effectDep = "none"
  /\ location = path
  /\ calls = EmptyBag
  /\ pending = 0
  /\ queries = NoQueries
  /\ form = NoForm
  /\ filters = initialFilters
  /\ ticketsQuery = NoTicketsQuery
  /\ toasts = 0
  /\ hrefs = NoHrefs
  /\ last = Did("load", "", 0, NoUser)

\* Paths the user enters or follows links to.
NavPaths == {"/login", "/tickets", "/admin/select-company"}

Init ==
  /\ token \in Tokens \cup {NoToken}
  /\ \E path \in NavPaths : Fresh(path)

\* The document is loaded anew: after an assignment to window.location.href
\* (PageLoad), or by the user reloading or entering a URL (UserReload).
\* Memory is reset; localStorage is kept.
Reloaded(path) ==
  /\ defaultAuth' = NoToken
  /\ store' = EmptyStore
  /\ isInitializing' = TRUE
  /\ effectDep' = "none"
  /\ location' = path
  /\ calls' = EmptyBag
  /\ pending' = 0
  /\ UNCHANGED queries
  /\ form' = NoForm
  /\ filters' = initialFilters
  /\ ticketsQuery' = NoTicketsQuery
  /\ toasts' = 0
  /\ hrefs' = NoHrefs
  /\ last' = Did("load", "", 0, NoUser)
  /\ UNCHANGED token

PageLoad ==
  /\ Unloading
  /\ ~Settling
  /\ Reloaded("/login")

UserReload(path) ==
  /\ ~Settling
  /\ Reloaded(path)

----------------------------------------------------------------------------
(* The api instance: response interceptor *)

\* The notification the error branch of the response interceptor shows.
ToastKind(status) ==
  CASE status = 401 -> "sessionExpired"
    [] status = 403 -> "permission"
    [] status = 404 -> "notFound"
    [] status = 422 -> "validation"
    [] status = 500 -> "server"
    [] status = 0 -> "network"
    [] OTHER -> "unexpected"

\* The interceptor signing the session out on 403 as it does on 401.
Intercepted_SignsOutOn403(status) ==
  [token |-> IF status \in {401, 403} THEN NoToken ELSE token,
   hrefs |-> IF status \in {401, 403}
               THEN [hrefs EXCEPT !.hook = @ + 1] ELSE hrefs,
   toasts |-> IF status = 401 THEN toasts + 1 ELSE toasts,
   store |-> store,
   toast |-> IF status = 200 THEN "" ELSE ToastKind(status),
   shown |-> IF status = 200 THEN 0 ELSE 1,
   result |-> IF status = 200 THEN "resolved" ELSE "rejected"]

\* What the response interceptor leaves for a response of the given status.
\* A fulfilled response (200) passes unchanged. On 401 the token is removed,
\* window.location.href is set to /login and the session-expired toast is
\* shown; every other error status shows its toast only. The store is not
\* touched, and an error is rejected on to the caller.
Intercepted(status) ==
  [token |-> IF status = 401 THEN NoToken ELSE token,
   hrefs |-> IF status = 401 THEN [hrefs EXCEPT !.hook = @ + 1] ELSE hrefs,
   toasts |-> IF status = 401 THEN toasts + 1 ELSE toasts,
   store |-> store,
   toast |-> IF status = 200 THEN "" ELSE ToastKind(status),
   shown |-> IF status = 200 THEN 0 ELSE 1,
   result |-> IF status = 200 THEN "resolved" ELSE "rejected"]

\* A screen sends a request through the api instance.
SendRequest ==
  /\ ~isInitializing
  /\ ~Unloading
  /\ pending < MaxRequests
  /\ pending' = pending + 1
  /\ UNCHANGED <<queries, form, filters, ticketsQuery>>
  /\ last' = Did("request", RequestHeader, 0, NoUser)
  /\ UNCHANGED <<token, defaultAuth, store, isInitializing, effectDep,
                 location, calls, toasts, hrefs>>

\* The response of a screen's request passes the interceptor, and the caller
\* gets the result.
RequestSettled(status) ==
  LET h == Intercepted(status) IN
  /\ pending > 0
  /\ ~Settling
  /\ pending' = pending - 1
  /\ UNCHANGED <<queries, form, filters, ticketsQuery>>
  /\ token' = h.token
  /\ hrefs' = h.hrefs
  /\ toasts' = h.toasts
  /\ store' = h.store
  /\ last' = [Did("responseHook", h.result, status, NoUser)
                EXCEPT !.toast = h.toast, !.shown = h.shown]
  /\ UNCHANGED <<defaultAuth, isInitializing, effectDep, location, calls>>

----------------------------------------------------------------------------
(* The api instance: the text of the notification *)

\* Error statuses the interceptor receives: 418 stands for every status
\* without a case of its own, 0 for an error without response.
ErrorStatuses == {401, 403, 404, 422, 500, 418, 0}

\* An element of a detail array: a string, or an object with or without msg.
FieldString(s) == [isString |-> TRUE, text |-> s, msg |-> Absent]

FieldObject(m) == [isString |-> FALSE, text |-> "", msg |-> m]

\* response.data.detail: missing (undefined or null), a string, an array of
\* field errors, or an object with or without message.
MkDetail(kind, text, items, message) ==
  [kind |-> kind, text |-> text, items |-> items, message |-> message]

NoDetail == MkDetail("missing", "", <<>>, Absent)

FieldErrors ==
  { FieldString("Name is required"), FieldString(""),
    FieldObject("Field required"), FieldObject(""), FieldObject(Absent) }

Details ==
  {NoDetail}
    \cup { MkDetail("string", t, <<>>, Absent) : t \in {"", "Password too short"} }
    \cup { MkDetail("array", "", <<>>, Absent) }
    \cup { MkDetail("array", "", <<e>>, Absent) : e \in FieldErrors }
    \cup { MkDetail("array", "", <<e, f>>, Absent) : e, f \in FieldErrors }
    \cup { MkDetail("object", "", <<>>, m) : m \in {Absent, "", "Quota exceeded"} }

\* response.data: detail, and message with the text of other errors.
Bodies ==
  { [detail |-> d, message |-> Absent] : d \in Details }
    \cup { [detail |-> NoDetail, message |-> m] : m \in {"", "I am a teapot"} }

\* JSON.stringify of a field error object and of a detail object.
StringifyField(err) ==
  IF err.msg = Absent THEN "{}" ELSE "{\"msg\":\"" \o err.msg \o "\"}"

StringifyDetail(detail) ==
  IF detail.message = Absent THEN "{}"
  ELSE "{\"message\":\"" \o detail.message \o "\"}"

\* The callback of detail.map: the string itself, the msg of an object that
\* has a non-empty string msg, otherwise the stringified object.
FieldText(err) ==
  IF err.isString THEN err.text
  ELSE IF err.msg # Absent /\ err.msg # "" THEN err.msg
  ELSE StringifyField(err)

RECURSIVE JoinFields(_)
\* detail.map(...).join('; ')
JoinFields(items) ==
  IF Len(items) = 0 THEN ""
  ELSE IF Len(items) = 1 THEN FieldText(Head(items))
  ELSE FieldText(Head(items)) \o "; " \o JoinFields(Tail(items))

\* validationMessage of case 422.
validationMessage(detail) ==
  IF detail.kind = "missing" \/ (detail.kind = "string" /\ detail.text = "")
    THEN "Invalid input data."
  ELSE IF detail.kind = "array" THEN JoinFields(detail.items)
  ELSE IF detail.kind = "string" THEN detail.text
  ELSE IF detail.message # Absent /\ detail.message # "" THEN detail.message
  ELSE StringifyDetail(detail)

\* The text shown for 422 without the fallback for an empty message.
shownFor422_NoFallback(detail) == validationMessage(detail)

\* toast.error(finalMessage || 'Unprocessable Content')
shownFor422(detail) ==
  IF validationMessage(detail) # "" THEN validationMessage(detail)
  ELSE "Unprocessable Content"

\* The text of the notification for an error of the given status and body.
ToastMessage(status, data) ==
  CASE status = 401 -> "Your session has expired. Please login again."
    [] status = 403 -> "You do not have permission to perform this action."
    [] status = 404 -> "The requested resource was not found."
    [] status = 422 -> shownFor422(data.detail)
    [] status = 500 -> "An error occurred on the server. Please try again later."
    [] status = 0 ->
         "Unable to connect to the server. Please check your internet connection."
    [] OTHER -> IF data.message # Absent /\ data.message # ""
                  THEN data.message ELSE "An unexpected error occurred."

----------------------------------------------------------------------------
(* App: the rehydration effect *)

\* useEffect(..., [isAuthenticated]): runs after mount and after every change
\* of isAuthenticated. Not authenticated: attemptRehydrate up to its await.
AppEffect ==
  /\ effectDep # BoolName(store.isAuthenticated)
  /\ effectDep' = BoolName(store.isAuthenticated)
  /\ UNCHANGED <<defaultAuth, location, pending, queries,
                 form, filters, ticketsQuery, toasts, hrefs>>
  /\ IF store.isAuthenticated
       THEN /\ isInitializing' = FALSE
            /\ last' = Did("effect", "authenticated", 0, NoUser)
            /\ UNCHANGED <<token, store, calls>>
     ELSE IF token = NoToken
       THEN /\ isInitializing' = FALSE
            /\ last' = Did("attemptRehydrate", "noToken", 0, NoUser)
            /\ UNCHANGED <<token, store, calls>>
     ELSE IF ~isTokenValid(token)
       THEN /\ store' = clearAuth(store)
            /\ token' = NoToken
            /\ isInitializing' = FALSE
            /\ last' = Did("attemptRehydrate", "invalidToken", 0, NoUser)
            /\ UNCHANGED calls
     ELSE /\ HasFree
          /\ calls' = Added(Issue("me"))
          /\ last' = Did("refreshToken", RequestHeader, 0, NoUser)
          /\ UNCHANGED <<token, store, isInitializing>>

\* The response of GET /auth/me passes the interceptor and refreshToken
\* resumes: the store is updated from a fulfilled response, or cleared when
\* the call was rejected and null is returned.
RefreshTokenResume(c, status, u) ==
  LET h == Intercepted(status) IN
  /\ c.kind = "me"
  /\ c.phase = "inflight"
  /\ ~Settling
  /\ status # 200 => u = NoUser
  /\ token' = h.token
  /\ hrefs' = h.hrefs
  /\ toasts' = h.toasts
  /\ store' = IF status = 200
                THEN setIsAuthenticated(setUser(h.store, u), TRUE)
                ELSE clearAuth(h.store)
  /\ calls' = Replaced(c, [c EXCEPT !.phase = "returned", !.ok = (status = 200),
                                     !.data = u])
  /\ last' = [Did("refreshToken", h.result, status, u) EXCEPT !.toast = h.toast]
  /\ UNCHANGED <<defaultAuth, isInitializing, effectDep, location, pending,
                 queries, form, filters, ticketsQuery>>

\* attemptRehydrate setting selectedCompanyId for a superAdmin only.
RehydratedCompany_SuperAdminOnly(st, u) ==
  IF u.role = "superAdmin" THEN setSelectedCompanyId(st, Absent) ELSE st

\* The selectedCompanyId attemptRehydrate sets for a refreshed user.
RehydratedCompany(st, u) ==
  IF u.role = "superAdmin" THEN setSelectedCompanyId(st, Absent)
  ELSE IF u.role \in {"admin", "employee"}
    THEN setSelectedCompanyId(st, u.company_id)
  ELSE st

\* attemptRehydrate without the check for a missing role.
Rehydrated_NoRoleCheck(st, tok, u) ==
  IF u.present
    THEN [store |-> RehydratedCompany(
                      setIsAuthenticated(setUser(st, u), TRUE), u),
          token |-> tok]
  ELSE [store |-> clearAuth(st), token |-> NoToken]

\* attemptRehydrate leaving the token in storage when refreshToken gave null.
Rehydrated_KeepsToken(st, tok, u) ==
  IF u.present /\ u.role = ""
    THEN [store |-> clearAuth(st), token |-> NoToken]
  ELSE IF u.present
    THEN [store |-> RehydratedCompany(
                      setIsAuthenticated(setUser(st, u), TRUE), u),
          token |-> tok]
  ELSE [store |-> clearAuth(st), token |-> tok]

\* What attemptRehydrate leaves once refreshToken has returned u: the
\* refreshed user, or null after a rejected call or a response without user.
\* A user without role and a null result clear the store and remove the
\* token; a user with a role is stored as the authenticated user.
Rehydrated(st, tok, u) ==
  IF u.present /\ u.role = ""
    THEN [store |-> clearAuth(st), token |-> NoToken]
  ELSE IF u.present
    THEN [store |-> RehydratedCompany(
                      setIsAuthenticated(setUser(st, u), TRUE), u),
          token |-> tok]
  ELSE [store |-> clearAuth(st), token |-> NoToken]

\* attemptRehydrate after its await.
\* attemptRehydrate reaching setIsInitializing(false) only after a fulfilled
\* refreshToken.
AttemptRehydrateResume_StaysInitializing(c) ==
  LET r == Rehydrated(store, token, c.data) IN
  /\ c.kind = "me"
  /\ c.phase = "returned"
  /\ store' = r.store
  /\ token' = r.token
  /\ last' = Did("attemptRehydrate", IF c.ok THEN "fulfilled" ELSE "rejected",
                 0, c.data)
  /\ isInitializing' = IF c.ok THEN FALSE ELSE isInitializing
  /\ calls' = Removed(c)
  /\ UNCHANGED <<defaultAuth, effectDep, location, pending, queries,
                 form, filters, ticketsQuery, toasts, hrefs>>

AttemptRehydrateResume(c) ==
  LET r == Rehydrated(store, token, c.data) IN
  /\ c.kind = "me"
  /\ c.phase = "returned"
  /\ store' = r.store
  /\ token' = r.token
  /\ last' = Did("attemptRehydrate", IF c.ok THEN "fulfilled" ELSE "rejected",
                 0, c.data)
  /\ isInitializing' = FALSE
  /\ calls' = Removed(c)
  /\ UNCHANGED <<defaultAuth, effectDep, location, pending, queries,
                 form, filters, ticketsQuery, toasts, hrefs>>

----------------------------------------------------------------------------
(* authService.login / logout and the sign-in page *)

\* SignInPage.handleSubmit up to the await inside login: POST /auth/login.
\* The submit button is disabled while a submission is in progress.
SubmitLogin ==
  /\ ~isInitializing
  /\ ~Unloading
  /\ ~Settling
  /\ location = "/login"
  /\ \A c \in Calls : c.kind # "login"
  /\ HasFree
  /\ calls' = Added(Issue("login"))
  /\ last' = Did("login", RequestHeader, 0, NoUser)
  /\ UNCHANGED <<token, defaultAuth, store, isInitializing, effectDep,
                 location, pending, queries, form, filters, ticketsQuery, toasts, hrefs>>

\* The response of POST /auth/login passes the interceptor and login
\* resumes: token and default header are written and the store is set from
\* the response; after a rejected call everything is cleared and the error
\* is thrown again.
LoginResume(c, status, u, t) ==
  LET h == Intercepted(status) IN
  /\ c.kind = "login"
  /\ c.phase = "inflight"
  /\ ~Settling
  /\ status # 200 => u = NoUser /\ t = "t1"
  /\ hrefs' = h.hrefs
  /\ toasts' = h.toasts
  /\ IF status = 200
       THEN /\ token' = t
            /\ defaultAuth' = t
            /\ store' = setIsAuthenticated(setUser(h.store, u), TRUE)
       ELSE /\ token' = NoToken
            /\ defaultAuth' = NoToken
            /\ store' = clearAuth(h.store)
  /\ calls' = Replaced(c, [c EXCEPT !.phase = "returned", !.ok = (status = 200),
                                     !.data = u])
  /\ last' = [Did("login", IF status = 200 THEN "returned" ELSE "thrown",
                  status, u) EXCEPT !.toast = h.toast]
  /\ UNCHANGED <<isInitializing, effectDep, location, pending, queries,
                 form, filters, ticketsQuery>>

\* handleSubmit navigating by role without setting selectedCompanyId.
SignedIn_NoCompany(st, u) ==
  LET s1 == setIsAuthenticated(setUser(st, u), TRUE) IN
  IF ~u.present THEN [store |-> s1, to |-> Absent]
  ELSE IF u.role = "superAdmin" THEN [store |-> s1, to |-> "/admin/select-company"]
  ELSE IF u.role = "admin" THEN [store |-> s1, to |-> "/admin/analytics-dashboard"]
  ELSE IF u.role = "employee"
    THEN IF u.department_id = Absent
           THEN [store |-> setUser(setIsAuthenticated(s1, FALSE), NoUser),
                 to |-> Absent]
           ELSE [store |-> s1, to |-> "/tickets"]
  ELSE [store |-> s1, to |-> "/"]

\* The store and the route SignInPage.handleSubmit leaves for a returned user.
\* A response without user makes user.role throw after the two setters.
SignedIn(st, u) ==
  LET s1 == setIsAuthenticated(setUser(st, u), TRUE) IN
  IF ~u.present THEN [store |-> s1, to |-> Absent]
  ELSE IF u.role = "superAdmin"
    THEN [store |-> setSelectedCompanyId(s1, Absent), to |-> "/admin/select-company"]
  ELSE IF u.role = "admin"
    THEN [store |-> setSelectedCompanyId(s1, u.company_id),
          to |-> "/admin/analytics-dashboard"]
  ELSE IF u.role = "employee"
    THEN IF u.department_id = Absent
           THEN [store |-> setUser(setIsAuthenticated(
                             setSelectedCompanyId(s1, u.company_id), FALSE), NoUser),
                 to |-> Absent]
           ELSE [store |-> setSelectedCompanyId(s1, u.company_id), to |-> "/tickets"]
  ELSE [store |-> s1, to |-> "/"]

\* SignInPage.handleSubmit after login returned or threw.
HandleSubmitResume(c) ==
  LET r == SignedIn(store, c.data) IN
  /\ c.kind = "login"
  /\ c.phase = "returned"
  /\ IF c.ok
       THEN /\ store' = r.store
            /\ location' = IF r.to = Absent THEN location ELSE r.to
            /\ last' = Did("handleSubmit", r.to, 0, c.data)
       ELSE /\ UNCHANGED <<store, location>>
            /\ last' = Did("handleSubmit", "failed", 0, NoUser)
  /\ calls' = Removed(c)
  /\ UNCHANGED <<token, defaultAuth, isInitializing, effectDep, pending, queries,
                 form, filters, ticketsQuery,
                 toasts, hrefs>>

\* logout leaving the default Authorization header of the api instance.
logout_KeepsDefaultHeader(tok, auth, st, hr) ==
  [token |-> NoToken, defaultAuth |-> auth, store |-> clearAuth(st),
   hrefs |-> [hr EXCEPT !.logout = @ + 1]]

\* authService.logout: removes the token, deletes the default Authorization
\* header, clears the store and assigns window.location.href = '/login'.
logout(tok, auth, st, hr) ==
  [token |-> NoToken, defaultAuth |-> NoToken, store |-> clearAuth(st),
   hrefs |-> [hr EXCEPT !.logout = @ + 1]]

\* What a call of logout leaves; the record keeps the token and the store
\* from before the call.
LoggedOut ==
  LET r == logout(token, defaultAuth, store, hrefs) IN
  /\ token' = r.token
  /\ defaultAuth' = r.defaultAuth
  /\ store' = r.store
  /\ hrefs' = r.hrefs
  /\ last' = Record("logout", token, 0, NoUser, NoRole, Children, store, Absent)
  /\ UNCHANGED <<isInitializing, effectDep, location, calls, pending, queries,
                 form, filters, ticketsQuery, toasts>>

\* handleSignOut: the sign-out button of Navbar or Sidebar, shown to an
\* authenticated session.
Logout ==
  /\ ~isInitializing
  /\ ~Unloading
  /\ ~Settling
  /\ store.isAuthenticated
  /\ LoggedOut

----------------------------------------------------------------------------
(* App: layout and routes *)

shouldUseSidebar(st, path) ==
  st.isAuthenticated /\ path \notin {"/login", "/signup", "/"}

\* What a guard evaluation at `path` leaves: store, router location, record.
Guarded(role, path) ==
  LET g == ProtectedRoute(store, role, path) IN
  /\ store' = g.store
  /\ location' = IF g.out.kind = "navigate" THEN g.out.to ELSE path
  /\ last' = Record("ProtectedRoute", g.out.kind, 0, NoUser, role, g.out,
                    store, path)

\* The ticket table rendered for every user the page is given.
AllTicketsPage_NoChecks(user) == [out |-> Children, toast |-> ""]

\* AllTicketsPage: what the page returns for the user of the store, and the
\* notification it shows. Without user it redirects to /login; an admin
\* without company and an employee without department get a notification
\* and a redirect; everyone else gets the ticket table.
AllTicketsPage(user) ==
  IF ~user.present
    THEN [out |-> NavigateTo("/login", Absent), toast |-> ""]
  ELSE IF user.role = "admin" /\ user.company_id = Absent
    THEN [out |-> NavigateTo("/admin/analytics-dashboard", Absent),
          toast |-> "noCompany"]
  ELSE IF user.role = "employee" /\ user.department_id = Absent
    THEN [out |-> NavigateTo("/login", Absent), toast |-> "noDepartment"]
  ELSE [out |-> Children, toast |-> ""]

\* AdminAnalyticsDashboardPage: every user whose role is not admin gets the
\* access-denied notification and a redirect to /login.
AdminAnalyticsDashboardPage(user) ==
  IF ~user.present \/ user.role # "admin"
    THEN [out |-> NavigateTo("/login", Absent), toast |-> "accessDenied"]
    ELSE [out |-> Children, toast |-> ""]

\* The element of the routes /tickets, /admin/analytics-dashboard and
\* /employee/dashboard, which checks the user itself.
PageElement(path, user) ==
  IF path = "/tickets" THEN AllTicketsPage(user)
                       ELSE AdminAnalyticsDashboardPage(user)

\* The guard of the route has rendered its children: the page renders.
PageRendered ==
  LET v == PageElement(location, store.user) IN
  /\ location' = IF v.out.kind = "navigate" THEN v.out.to ELSE location
  /\ last' = [Record(IF location = "/tickets" THEN "AllTicketsPage"
                                                 ELSE "AdminAnalyticsDashboardPage",
                     v.out.kind, 0, store.user,
                     RouteRole(location), v.out, store, location)
                EXCEPT !.toast = v.toast,
                       !.shown = IF v.toast = "" THEN 0 ELSE 1]
  /\ UNCHANGED store

\* App renders the route of the current location: the sidebar layout holds
\* the guarded routes, and a guard that admits the session renders the
\* page of the route; the public layout and the unguarded routes of the
\* sidebar layout change nothing.
RenderRoute ==
  /\ ~isInitializing
  /\ IF shouldUseSidebar(store, location) /\ location \in ProtectedPaths
       THEN IF /\ location \in {"/tickets", "/admin/analytics-dashboard",
                               "/employee/dashboard"}
               /\ ProtectedRoute(store, RouteRole(location), location).out
                    = Children
              THEN PageRendered
              ELSE Guarded(RouteRole(location), location)
       ELSE UNCHANGED <<store, location, last>>
  /\ UNCHANGED <<token, defaultAuth, isInitializing, effectDep, calls,
                 pending, queries, form, filters, ticketsQuery, toasts, hrefs>>

\* The user follows a link of the running application.
FollowLink(path) ==
  /\ ~isInitializing
  /\ ~Unloading
  /\ ~Settling
  /\ location' = path
  /\ last' = Did("navigate", "", 0, NoUser)
  /\ UNCHANGED <<token, defaultAuth, store, isInitializing, effectDep,
                 calls, pending, queries, form, filters, ticketsQuery, toasts, hrefs>>

\* SelectCompanyPage.handleCompanySelect, offered to a superAdmin only.
handleCompanySelect(c) ==
  /\ ~isInitializing
  /\ ~Unloading
  /\ ~Settling
  /\ shouldUseSidebar(store, location)
  /\ location = "/admin/select-company"
  /\ store.user.role = "superAdmin"
  /\ store' = setSelectedCompanyId(store, c)
  /\ location' = "/admin/company-dashboard"
  /\ last' = Did("handleCompanySelect", c, 0, NoUser)
  /\ UNCHANGED <<token, defaultAuth, isInitializing, effectDep, calls,
                 pending, queries, form, filters, ticketsQuery, toasts, hrefs>>

----------------------------------------------------------------------------
(* The application *)

\* The statuses the backend answers with in the runs of the application.
Statuses == {200, 401, 500}

Next ==
  \/ PageLoad
  \/ \E path \in NavPaths : UserReload(path)
  \/ AppEffect
  \/ \E c \in Calls, status \in Statuses, u \in BackendUsers \cup {NoUser} :
       RefreshTokenResume(c, status, u)
  \/ \E c \in Calls : AttemptRehydrateResume(c)
  \/ SendRequest
  \/ \E status \in Statuses : RequestSettled(status)
  \/ SubmitLogin
  \/ \E c \in Calls, status \in Statuses, u \in BackendUsers \cup {NoUser},
        t \in IssuedTokens : LoginResume(c, status, u, t)
  \/ \E c \in Calls : HandleSubmitResume(c)
  \/ Logout
  \/ RenderRoute
  \/ \E path \in NavPaths : FollowLink(path)
  \/ \E c \in Companies : handleCompanySelect(c)

Spec == Init /\ [][Next]_vars

----------------------------------------------------------------------------
(* The route guard on its own: every store state, role prop and route *)

GuardInit ==
  /\ token = NoToken
  /\ defaultAuth = NoToken
  /\ store \in Stores
  /\ isInitializing = FALSE
  /\ effectDep = BoolName(store.isAuthenticated)
  /\ location = "/login"
  /\ calls = EmptyBag
  /\ pending = 0
  /\ queries = NoQueries
  /\ form = NoForm
  /\ filters = initialFilters
  /\ ticketsQuery = NoTicketsQuery
  /\ toasts = 0
  /\ hrefs = NoHrefs
  /\ last = Did("load", "", 0, NoUser)

\* ProtectedRoute is evaluated with the given role prop at the given path.
GuardEvaluate(role, path) ==
  /\ Guarded(role, path)
  /\ UNCHANGED <<token, defaultAuth, isInitializing, effectDep, calls,
                 pending, queries, form, filters, ticketsQuery, toasts, hrefs>>

GuardNext == \E role \in RoleProps, path \in Paths : GuardEvaluate(role, path)

GuardSpec == GuardInit /\ [][GuardNext]_vars

----------------------------------------------------------------------------
(* The application start: rehydration and the reloads it forces, with every
   /auth/me request answered and no reload by the user *)

StartNext ==
  \/ PageLoad
  \/ AppEffect
  \/ \E c \in Calls, status \in Statuses, u \in BackendUsers \cup {NoUser} :
       RefreshTokenResume(c, status, u)
  \/ \E c \in Calls : AttemptRehydrateResume(c)
  \/ RenderRoute
  \/ \E path \in NavPaths : FollowLink(path)

\* The effect runs after the render, every issued /auth/me request is
\* answered, the awaiting attemptRehydrate resumes, and the document the
\* interceptor navigated to loads.
StartSpec ==
  /\ Init
  /\ [][StartNext]_vars
  /\ WF_vars(AppEffect)
  /\ WF_vars(\E c \in Calls, status \in Statuses, u \in BackendUsers \cup {NoUser} :
               RefreshTokenResume(c, status, u))
  /\ WF_vars(\E c \in Calls : AttemptRehydrateResume(c))
  /\ WF_vars(PageLoad)

----------------------------------------------------------------------------
(* SignUpStepper: the submission of the signup form *)

validateStep2(f) == f.companyProfile

\* handleSubmit up to its await: nothing happens without a company profile.
handleSubmit(f) ==
  IF validateStep2(f)
    THEN [f EXCEPT !.isLoading = TRUE, !.submitError = "",
                   !.waits = "registerAdmin", !.adminUser = "",
                   !.requests = Append(@, "POST /auth/register-user")]
    ELSE f

\* The timer is started whatever registerAdmin gave.
handleSubmitResumed_AlwaysNavigates(f, adminUser, message) ==
  [f EXCEPT !.waits = "timer", !.adminUser = adminUser]

\* handleSubmit after its await: adminUser is "id" for a user with id, "noId"
\* for any other resolved value and "rejected" for a thrown error, whose
\* message is given.
handleSubmitResumed(f, adminUser, message) ==
  IF adminUser = "id"
    THEN [f EXCEPT !.waits = "timer", !.adminUser = adminUser]
  ELSE IF adminUser = "noId"
    THEN [f EXCEPT !.waits = "", !.adminUser = adminUser, !.isLoading = FALSE,
                   !.submitError = "Failed to register admin or retrieve admin ID."]
  ELSE [f EXCEPT !.waits = "", !.adminUser = adminUser, !.isLoading = FALSE,
                 !.submitError = IF message # "" THEN message
                                 ELSE "An unexpected error occurred."]

\* Submissions of the form in one run.
MaxSignups == 2

SignupInit ==
  /\ token \in Tokens \cup {NoToken}
  /\ defaultAuth = NoToken
  /\ store = EmptyStore
  /\ isInitializing = FALSE
  /\ effectDep = BoolName(FALSE)
  /\ location = "/signup"
  /\ calls = EmptyBag
  /\ pending = 0
  /\ queries = NoQueries
  /\ form = NoForm
  /\ filters = initialFilters
  /\ ticketsQuery = NoTicketsQuery
  /\ toasts = 0
  /\ hrefs = NoHrefs
  /\ last = Did("load", "", 0, NoUser)

SignupUnchanged ==
  UNCHANGED <<defaultAuth, store, isInitializing, effectDep, calls, pending,
              queries, filters, ticketsQuery>>

\* The user selects or removes the company profile document.
handleCompanyProfileSelect(file) ==
  /\ location = "/signup"
  /\ ~Unloading
  /\ form.companyProfile # file
  /\ form' = [form EXCEPT !.companyProfile = file]
  /\ last' = Did("handleCompanyProfileSelect", "", 0, NoUser)
  /\ UNCHANGED <<token, location, toasts, hrefs>>
  /\ SignupUnchanged

\* The user submits the form; the button is disabled while isLoading.
SignupSubmit ==
  /\ location = "/signup"
  /\ ~Unloading
  /\ ~form.isLoading
  /\ Len(form.requests) < MaxSignups
  /\ form' = handleSubmit(form)
  /\ last' = Did("handleSubmit", IF validateStep2(form) THEN "sent" ELSE "invalid",
                 0, NoUser)
  /\ UNCHANGED <<token, location, toasts, hrefs>>
  /\ SignupUnchanged

\* The response to POST /auth/register-user passes the interceptor and
\* handleSubmit resumes; a 200 response carries a user with or without id.
SignupSettled(status, hasId, message) ==
  LET r == Intercepted(status)
      adminUser == IF r.result = "rejected" THEN "rejected"
                   ELSE IF hasId THEN "id" ELSE "noId" IN
  /\ form.waits = "registerAdmin"
  /\ ~Unloading
  /\ token' = r.token
  /\ hrefs' = r.hrefs
  /\ toasts' = r.toasts
  /\ form' = handleSubmitResumed(form, adminUser, message)
  /\ last' = [Did("registerAdmin", r.result, status, NoUser)
                EXCEPT !.toast = r.toast, !.shown = r.shown,
                       !.prePath = location]
  /\ UNCHANGED location
  /\ SignupUnchanged

\* The timer started by handleSubmit fires after one second.
SignupTimer ==
  /\ form.waits = "timer"
  /\ ~Unloading
  /\ form' = [form EXCEPT !.waits = "", !.isLoading = FALSE]
  /\ location' = "/login"
  /\ last' = [Did("signupNavigate", "", 0, NoUser) EXCEPT !.prePath = location]
  /\ UNCHANGED <<token, toasts, hrefs>>
  /\ SignupUnchanged

SignupNext ==
  \/ \E file \in BOOLEAN : handleCompanyProfileSelect(file)
  \/ SignupSubmit
  \/ \E status \in ErrorStatuses \cup {200}, hasId \in BOOLEAN,
        message \in {"", "Request failed"} :
       SignupSettled(status, hasId, message)
  \/ SignupTimer
  \/ PageLoad

SignupSpec == SignupInit /\ [][SignupNext]_vars

----------------------------------------------------------------------------
(* The screens: any session the store can hold, any route of the sidebar
   layout followed by link, and the render of that route. *)

ScreenRender ==
  /\ RenderRoute
  /\ UNCHANGED <<token, defaultAuth, isInitializing, effectDep, calls,
                 pending, queries, form, filters, ticketsQuery, toasts, hrefs>>

ScreenNext ==
  \/ \E path \in ProtectedPaths : FollowLink(path)
  \/ ScreenRender

ScreenSpec == GuardInit /\ [][ScreenNext]_vars

----------------------------------------------------------------------------
(* The auth store on its own: its four operations from every state *)

StoreInit ==
  /\ token = NoToken
  /\ defaultAuth = NoToken
  /\ store \in Stores
  /\ isInitializing = FALSE
  /\ effectDep = BoolName(store.isAuthenticated)
  /\ location = "/login"
  /\ calls = EmptyBag
  /\ pending = 0
  /\ queries = NoQueries
  /\ form = NoForm
  /\ filters = initialFilters
  /\ ticketsQuery = NoTicketsQuery
  /\ toasts = 0
  /\ hrefs = NoHrefs
  /\ last = Did("load", "", 0, NoUser)

StoreCall(op, st) ==
  /\ store' = st
  /\ last' = Record(op, "", 0, NoUser, NoRole, Children, store, Absent)
  /\ UNCHANGED <<token, defaultAuth, isInitializing, effectDep, location,
                 calls, pending, queries, form, filters, ticketsQuery, toasts, hrefs>>

StoreNext ==
  \/ \E u \in Users \cup {NoUser} : StoreCall("setUser", setUser(store, u))
  \/ \E b \in BOOLEAN : StoreCall("setIsAuthenticated", setIsAuthenticated(store, b))
  \/ \E c \in Companies \cup {Absent} :
       StoreCall("setSelectedCompanyId", setSelectedCompanyId(store, c))
  \/ StoreCall("clearAuth", clearAuth(store))

StoreSpec == StoreInit /\ [][StoreNext]_vars

----------------------------------------------------------------------------
(* logout called in every state of storage, api instance and store *)

LogoutInit ==
  /\ token \in Tokens \cup {NoToken}
  /\ defaultAuth \in Tokens \cup {NoToken}
  /\ store \in Stores
  /\ isInitializing = FALSE
  /\ effectDep = BoolName(store.isAuthenticated)
  /\ location = "/tickets"
  /\ calls = EmptyBag
  /\ pending = 0
  /\ queries = NoQueries
  /\ form = NoForm
  /\ filters = initialFilters
  /\ ticketsQuery = NoTicketsQuery
  /\ toasts = 0
  /\ hrefs = NoHrefs
  /\ last = Did("load", "", 0, NoUser)

\* logout is called once on a page: the document unloads after it.
LogoutCall ==
  /\ ~Unloading
  /\ LoggedOut

\* A request sent through the api instance before the document has unloaded.
LogoutRequest ==
  /\ pending < MaxRequests
  /\ pending' = pending + 1
  /\ UNCHANGED <<queries, form, filters, ticketsQuery>>
  /\ last' = Did("request", RequestHeader, 0, NoUser)
  /\ UNCHANGED <<token, defaultAuth, store, isInitializing, effectDep,
                 location, calls, toasts, hrefs>>

LogoutNext ==
  \/ LogoutCall
  \/ LogoutRequest

LogoutSpec == LogoutInit /\ [][LogoutNext]_vars

----------------------------------------------------------------------------
(* The response interceptor on every error, in every state of token and store *)

HookInit ==
  /\ token \in Tokens \cup {NoToken}
  /\ defaultAuth = NoToken
  /\ store \in Stores
  /\ isInitializing = FALSE
  /\ effectDep = BoolName(store.isAuthenticated)
  /\ location = "/tickets"
  /\ calls = EmptyBag
  /\ pending = 0
  /\ queries = NoQueries
  /\ form = NoForm
  /\ filters = initialFilters
  /\ ticketsQuery = NoTicketsQuery
  /\ toasts = 0
  /\ hrefs = NoHrefs
  /\ last = Did("load", "", 0, NoUser)

\* A rejected response with the given status and body passes the interceptor.
HookHandle(status, data) ==
  LET h == Intercepted(status) IN
  /\ ~Unloading
  /\ token' = h.token
  /\ hrefs' = h.hrefs
  /\ toasts' = h.toasts
  /\ store' = h.store
  /\ last' = [Record("responseHook", h.result, status, NoUser, NoRole,
                     Children, store, Absent)
                EXCEPT !.toast = h.toast, !.shown = h.shown,
                       !.text = ToastMessage(status, data),
                       !.preToken = token]
  /\ UNCHANGED <<defaultAuth, isInitializing, effectDep, location, calls,
                 pending, queries, form, filters, ticketsQuery>>

HookNext == \E status \in ErrorStatuses, data \in Bodies : HookHandle(status, data)

HookSpec == HookInit /\ [][HookNext]_vars

----------------------------------------------------------------------------
(* The query cache of the ticket screens *)

\* Whether a filter of invalidateQueries matches a query key: the filter's
\* key is a prefix of the query key.
Matches(filter, key) ==
  /\ filter.kind = key.kind
  /\ (filter.arg = "" \/ filter.arg = key.arg)

Cached(q) == q.issued > 0

\* A fetch that always makes a network call of its own.
Fetched_NoCoalescing(q, o) ==
  [q EXCEPT !.issued = @ + 1, !.current = q.issued + 1,
            !.inflight = @ \cup {q.issued + 1}, !.waiting = @ \cup {o}]

\* useQuery: an observer asks for the data of a query. While a call for the
\* key is awaited the observer joins it; otherwise the query function is
\* called.
Fetched(q, o) ==
  IF q.current # 0 THEN [q EXCEPT !.waiting = @ \cup {o}]
  ELSE [q EXCEPT !.issued = @ + 1, !.current = q.issued + 1,
                 !.inflight = @ \cup {q.issued + 1}, !.waiting = @ \cup {o}]

\* A response applied in the order of arrival.
Resolved_ArrivalOrder(q, id) ==
  [q EXCEPT !.inflight = @ \ {id}, !.data = id,
            !.current = IF id = q.current THEN 0 ELSE @,
            !.invalidated = FALSE,
            !.waiting = IF id = q.current THEN {} ELSE @]

\* The response of call id arrives: it becomes the data of the query when
\* the query still waits for that call, and is dropped when the call was
\* superseded.
Resolved(q, id) ==
  IF id = q.current
    THEN [q EXCEPT !.inflight = @ \ {id}, !.data = id, !.current = 0,
                   !.invalidated = FALSE, !.waiting = {}]
  ELSE [q EXCEPT !.inflight = @ \ {id}]

\* invalidateQueries on one matching query: it is marked invalidated and
\* fetched again; a call awaited by a query that has data is superseded, a
\* first call still awaited is kept.
Refetched(q) ==
  IF ~Cached(q) THEN q
  ELSE IF q.current # 0 /\ q.data = 0 THEN [q EXCEPT !.invalidated = TRUE]
  ELSE [q EXCEPT !.invalidated = TRUE, !.refetched = TRUE,
                 !.issued = @ + 1, !.current = q.issued + 1,
                 !.inflight = @ \cup {q.issued + 1}]

invalidateQueries(qs, keyFilters) ==
  [k \in QueryKeys |->
     IF \E f \in keyFilters : Matches(f, k) THEN Refetched(qs[k]) ELSE qs[k]]

\* The mutations of the ticket screens.
Mutations ==
  { "TicketDetailPage.updateStatus", "TicketDetailPage.sendReply",
    "TicketDetailPage.addNote", "AllTicketsPage.addNote",
    "AllTicketsPage.updateDetails" }

\* The query keys onSuccess of a mutation passes to invalidateQueries.
InvalidatedBy(mutation, ticketId) ==
  CASE mutation = "TicketDetailPage.updateStatus" ->
         {QueryKey("ticket", ticketId), QueryKey("allTickets", "")}
    [] mutation \in {"TicketDetailPage.sendReply", "TicketDetailPage.addNote"} ->
         {QueryKey("ticket", ticketId)}
    [] OTHER -> {QueryKey("allTickets", "")}

QueryInit ==
  /\ token = "t1"
  /\ defaultAuth = NoToken
  /\ store = RehydratedCompany(
               setIsAuthenticated(setUser(EmptyStore, MkUser("admin", "T1", Absent)),
                                  TRUE),
               MkUser("admin", "T1", Absent))
  /\ isInitializing = FALSE
  /\ effectDep = "true"
  /\ location = "/tickets"
  /\ calls = EmptyBag
  /\ pending = 0
  /\ queries = NoQueries
  /\ form = NoForm
  /\ filters = initialFilters
  /\ ticketsQuery = NoTicketsQuery
  /\ toasts = 0
  /\ hrefs = NoHrefs
  /\ last = Did("load", "", 0, NoUser)

QueryUnchanged ==
  UNCHANGED <<token, defaultAuth, store, isInitializing, effectDep, location,
              calls, pending, toasts, hrefs, form, filters, ticketsQuery>>

\* An observer of the key mounts or asks again.
QueryFetch(key, o) ==
  LET q == Fetched(queries[key], o) IN
  /\ o \notin queries[key].waiting
  /\ CallsMade(queries, QueryKeys) + (q.issued - queries[key].issued)
       <= MaxFetches
  /\ queries' = [queries EXCEPT ![key] = q]
  /\ last' = [Did("useQuery",
                  IF q.issued = queries[key].issued THEN "joined" ELSE "called",
                  q.current, NoUser)
                EXCEPT !.key = key, !.observers = q.waiting]
  /\ QueryUnchanged

\* The response of a call of the query function arrives.
QueryResolve(key, id) ==
  /\ id \in queries[key].inflight
  /\ queries' = [queries EXCEPT ![key] = Resolved(queries[key], id)]
  /\ last' = [Did("queryResolve",
                  IF queries'[key].data = id THEN "applied" ELSE "dropped",
                  id, NoUser)
                EXCEPT !.key = key,
                       !.observers = queries[key].waiting \ queries'[key].waiting]
  /\ QueryUnchanged

\* A mutation of a ticket succeeds: onSuccess invalidates.
MutationSucceeded(mutation, ticketId) ==
  LET qs == invalidateQueries(queries, InvalidatedBy(mutation, ticketId)) IN
  /\ CallsMade(qs, QueryKeys) <= MaxFetches
  /\ queries' = qs
  /\ last' = [Did("mutation", mutation, 0, NoUser)
                EXCEPT !.key = QueryKey("ticket", ticketId)]
  /\ QueryUnchanged

QueryNext ==
  \/ \E key \in QueryKeys, o \in Observers : QueryFetch(key, o)
  \/ \E key \in QueryKeys, id \in 1..MaxFetches : QueryResolve(key, id)
  \/ \E mutation \in Mutations, ticketId \in TicketIds :
       MutationSucceeded(mutation, ticketId)

QuerySpec == QueryInit /\ [][QueryNext]_vars

----------------------------------------------------------------------------
(* getTickets called with every page and limit *)

\* A screen calls getTickets with the given page and limit.
CallGetTickets(page, limit) ==
  /\ last' = [Did("getTickets", "", 0, NoUser)
                EXCEPT !.params = MkParams(page, limit, Undefined),
                       !.wire = getTickets(MkParams(page, limit, Undefined))]
  /\ UNCHANGED <<queries, form, filters, ticketsQuery>>
  /\ QueryUnchanged

PageNext ==
  \E page \in {Undefined} \cup {Num(n) : n \in 0..MaxPage},
     limit \in {Undefined} \cup {Num(n) : n \in 0..MaxLimit} :
    CallGetTickets(page, limit)

PageSpec == QueryInit /\ [][PageNext]_vars

----------------------------------------------------------------------------
(* getTickets returning for every total and limit *)

\* getTickets, called with the given limit, returns for a response with the
\* given total.
GetTicketsReturns(limit, total) ==
  /\ last' = [Did("getTicketsReturn", "", 0, NoUser)
                EXCEPT !.params = MkParams(Num(1), limit, Undefined),
                       !.returned =
                         getTicketsReturn(MkParams(Num(1), limit, Undefined), total)]
  /\ UNCHANGED <<queries, form, filters, ticketsQuery>>
  /\ QueryUnchanged

ReturnNext ==
  \E limit \in {Undefined} \cup {Num(n) : n \in 0..MaxLimit}, total \in 0..MaxTotal :
    GetTicketsReturns(limit, total)

ReturnSpec == QueryInit /\ [][ReturnNext]_vars

----------------------------------------------------------------------------
(* AllTicketsPage: the filters, the query they drive and the pagination *)

\* The employee's own filter value is sent instead of the user's department.
queryParams_TrustsFilter(user, f) ==
  MkQueryParams(f,
    IF user.role \in {"admin", "superAdmin"} THEN user.company_id ELSE Absent,
    f.departmentId)

\* queryParams of the page: the filters, the company of an admin or
\* superAdmin, and for an employee the user's department in place of the
\* department filter.
queryParams(user, f) ==
  MkQueryParams(f,
    IF user.role \in {"admin", "superAdmin"} THEN user.company_id ELSE Absent,
    IF user.role = "employee" THEN user.department_id ELSE f.departmentId)

Truthy(x) == IF x = "" THEN Absent ELSE x

\* getTickets: the parameters it sends for the queryParams it is given.
apiParams(qp) ==
  LET w == getTickets(MkParams(Num(qp.page), Num(qp.limit), Undefined)) IN
  MkApiParams(Truthy(qp.companyId), Truthy(qp.departmentId),
              Truthy(qp.search), Truthy(qp.status), Truthy(qp.priority),
              w.limit, w.offset, Truthy(qp.sortBy), Truthy(qp.sortOrder))

\* enabled of the useQuery.
QueryEnabled(user) ==
  /\ user.present
  /\ \/ user.role = "superAdmin"
     \/ user.company_id # Absent
     \/ user.role = "employee"

\* The query after a render with the given filters: a key that changed is
\* fetched while the data of the previous key stays displayed.
Observed(tq, user, f) ==
  IF ~QueryEnabled(user) \/ queryParams(user, f) = tq.params
    THEN tq
    ELSE [params |-> queryParams(user, f),
          request |-> apiParams(queryParams(user, f)),
          isFetching |-> TRUE, data |-> tq.data]

\* The defaults are restored except for the search text.
clearFilters_KeepsSearch(f) == [initialFilters EXCEPT !.search = f.search]

clearFilters(f) == initialFilters

\* The next page without the upper limit.
nextPage_Unclamped(f, totalPages) ==
  [f EXCEPT !.page = (IF f.page = 0 THEN 1 ELSE f.page) + 1]

\* The updater of the Next button.
nextPage(f, totalPages) ==
  LET next == (IF f.page = 0 THEN 1 ELSE f.page) + 1 IN
  [f EXCEPT !.page = IF next < totalPages THEN next ELSE totalPages]

\* The updater of the Previous button.
previousPage(f) ==
  LET previous == (IF f.page = 0 THEN 1 ELSE f.page) - 1 IN
  [f EXCEPT !.page = IF previous > 1 THEN previous ELSE 1]

\* totalPages and currentPage of a render.
totalPages == ticketsQuery.data.totalPages

currentPage == IF ticketsQuery.data.page = 0 THEN 1 ELSE ticketsQuery.data.page

\* The users of the sessions that open the ticket list.
ListUsers ==
  { MkUser("admin", "T1", Absent), MkUser("employee", "T1", "D1"),
    MkUser("employee", "T1", Absent), MkUser("superAdmin", Absent, Absent) }

\* Values of the filter inputs; the empty value is the "All" option or the
\* emptied search box.
FilterValues(name) ==
  CASE name = "search" -> {"", "vpn"}
    [] name = "status" -> {"", "open"}
    [] name = "priority" -> {"", "high"}
    [] name = "departmentId" -> {"", "D1", "D2"}

\* The page is mounted for a signed-in user: the first request is issued.
ListInit ==
  /\ token = "t1"
  /\ defaultAuth = NoToken
  /\ \E u \in ListUsers :
       store = RehydratedCompany(
                 setIsAuthenticated(setUser(EmptyStore, u), TRUE), u)
  /\ isInitializing = FALSE
  /\ effectDep = "true"
  /\ location = "/tickets"
  /\ calls = EmptyBag
  /\ pending = 0
  /\ queries = NoQueries
  /\ form = NoForm
  /\ filters = initialFilters
  /\ ticketsQuery = Observed(NoTicketsQuery, store.user, initialFilters)
  /\ toasts = 0
  /\ hrefs = NoHrefs
  /\ last = Did("load", "", 0, NoUser)

ListUnchanged ==
  UNCHANGED <<token, defaultAuth, store, isInitializing, effectDep, location,
              calls, pending, queries, form, toasts, hrefs>>

\* The page shows its table and controls.
TableShown == AllTicketsPage(store.user).out = Children

\* setFilters and the render that follows it.
SetFilters(op, f) ==
  /\ filters' = f
  /\ ticketsQuery' = Observed(ticketsQuery, store.user, f)
  /\ last' = [Did(op, "", 0, store.user) EXCEPT !.filters = filters]
  /\ ListUnchanged

handleFilterChange(name, value) ==
  /\ TableShown
  /\ name = "departmentId" => store.user.role = "admin"
  /\ SetFilters("handleFilterChange",
                [filters EXCEPT ![name] = IF value = "" THEN Absent ELSE value,
                                !.page = 1])

handleSort(sortKey) ==
  /\ TableShown
  /\ SetFilters("handleSort",
                [filters EXCEPT
                   !.sortBy = sortKey,
                   !.sortOrder = IF filters.sortBy = sortKey
                                      /\ filters.sortOrder = "asc"
                                    THEN "desc" ELSE "asc",
                   !.page = 1])

ClearFiltersClicked ==
  /\ TableShown
  /\ SetFilters("clearFilters", clearFilters(filters))

\* The Previous button: shown with the pagination and enabled off page 1
\* while nothing is fetched.
PreviousClicked ==
  /\ TableShown
  /\ totalPages > 0
  /\ currentPage # 1 /\ ~ticketsQuery.isFetching
  /\ SetFilters("previousPage", previousPage(filters))

\* The Next button: enabled off the last page while nothing is fetched.
NextClicked ==
  /\ TableShown
  /\ totalPages > 0
  /\ currentPage # totalPages /\ ~ticketsQuery.isFetching
  /\ SetFilters("nextPage", nextPage(filters, totalPages))

\* The request of the current key resolves with the given total.
TicketsResolved(total) ==
  /\ ticketsQuery.isFetching
  /\ ticketsQuery' =
       [ticketsQuery EXCEPT
          !.isFetching = FALSE,
          !.data = getTicketsReturn(MkParams(Num(ticketsQuery.params.page),
                                             Num(ticketsQuery.params.limit),
                                             Undefined), total)]
  /\ last' = [Did("ticketsResolved", "", 200, store.user) EXCEPT !.filters = filters]
  /\ UNCHANGED filters
  /\ ListUnchanged

\* The request of the current key fails: there is no data to display.
TicketsRejected ==
  /\ ticketsQuery.isFetching
  /\ ticketsQuery' = [ticketsQuery EXCEPT !.isFetching = FALSE, !.data = NoResponse]
  /\ last' = [Did("ticketsRejected", "", 500, store.user) EXCEPT !.filters = filters]
  /\ UNCHANGED filters
  /\ ListUnchanged

\* A mutation of the page invalidated ['allTickets']: the key is refetched.
TicketsInvalidated ==
  /\ TableShown
  /\ ~ticketsQuery.isFetching
  /\ ticketsQuery' = [ticketsQuery EXCEPT !.isFetching = TRUE]
  /\ last' = [Did("ticketsInvalidated", "", 0, store.user) EXCEPT !.filters = filters]
  /\ UNCHANGED filters
  /\ ListUnchanged

ListNext ==
  \/ \E name \in {"search", "status", "priority", "departmentId"} :
       \E value \in FilterValues(name) :
       handleFilterChange(name, value)
  \/ \E sortKey \in {"created_at", "priority"} : handleSort(sortKey)
  \/ ClearFiltersClicked
  \/ PreviousClicked
  \/ NextClicked
  \/ \E total \in {0, DefaultLimit + 1, MaxTotal} : TicketsResolved(total)
  \/ TicketsRejected
  \/ TicketsInvalidated

ListSpec == ListInit /\ [][ListNext]_vars

----------------------------------------------------------------------------
(* Properties of the route guard (GuardSpec) *)

Evaluated == last.op = "ProtectedRoute"

Corrupted(st) == st.isAuthenticated /\ (~st.user.present \/ st.user.role = "")

\* C1: a guard evaluation that starts authenticated with the user absent or
\* without role clears the store and redirects to /login, never rendering
\* the children, whatever the role prop is.
C1_CorruptedSessionFailsClosed ==
  (Evaluated /\ Corrupted(last.pre)) =>
    /\ store = clearAuth(last.pre)
    /\ store = EmptyStore
    /\ last.out.kind = "navigate"
    /\ last.out.to = "/login"
    /\ location = "/login"

C1_Witness ==
  /\ Evaluated
  /\ last.pre.isAuthenticated
  /\ last.pre.user.present
  /\ last.pre.user.role = ""
  /\ last.pre.selectedCompanyId = "T1"
  /\ last.role = RoleList({"admin", "employee"})
  /\ store = EmptyStore
  /\ location = "/login"

\* The access rule: authenticated, a user with a role, and the role among
\* the required ones when any are required.
Admitted(st, role) ==
  /\ st.isAuthenticated
  /\ st.user.present
  /\ st.user.role # ""
  /\ (role.kind = "none" \/ st.user.role \in role.roles)

\* C2: the guard renders its children exactly when the access rule admits
\* the session; in every other case it returns a redirect.
C2_ChildrenIffAdmitted ==
  Evaluated =>
    /\ (last.out.kind = "children") <=> Admitted(last.pre, last.role)
    /\ ~Admitted(last.pre, last.role) =>
         (last.out.kind = "navigate" /\ last.out.to \in Paths)

C2_Witness ==
  /\ Evaluated
  /\ last.role = RoleList({"admin", "employee"})
  /\ last.pre.user.role = "employee"
  /\ last.pre.isAuthenticated
  /\ last.out.kind = "children"
  /\ location = "/tickets"

\* C3: a guard evaluation that starts unauthenticated redirects to /login
\* with the attempted path as state.from and leaves the store as it was.
C3_UnauthenticatedToLoginWithFrom ==
  (Evaluated /\ ~last.pre.isAuthenticated) =>
    /\ last.out = NavigateTo("/login", last.prePath)
    /\ location = "/login"
    /\ store = last.pre

C3_Witness ==
  /\ Evaluated
  /\ ~last.pre.isAuthenticated
  /\ last.pre.user.present
  /\ last.pre.user.role = "admin"
  /\ last.role = SingleRole("admin")
  /\ last.prePath = "/admin/team"
  /\ last.out.from = "/admin/team"

\* C4: on a role mismatch the guard redirects to the landing screen of the
\* user's own role and leaves the store as it was.
C4_MismatchToRoleLanding ==
  (/\ Evaluated
   /\ last.pre.isAuthenticated
   /\ last.pre.user.present
   /\ last.pre.user.role # ""
   /\ last.role.kind # "none"
   /\ last.pre.user.role \notin last.role.roles) =>
    /\ last.out.kind = "navigate"
    /\ last.pre.user.role = "superAdmin" => last.out.to = "/admin/select-company"
    /\ last.pre.user.role = "admin" => last.out.to = "/admin/analytics-dashboard"
    /\ last.pre.user.role = "employee" => last.out.to = "/"
    /\ last.pre.user.role \notin Roles => last.out.to = "/"
    /\ location = last.out.to
    /\ store = last.pre

C4_Witness ==
  /\ Evaluated
  /\ last.pre.isAuthenticated
  /\ last.pre.user.role = "admin"
  /\ last.role = SingleRole("superAdmin")
  /\ location = "/admin/analytics-dashboard"

----------------------------------------------------------------------------
(* Properties of the session (Spec) *)

\* C5: whenever isAuthenticated is true, a token is stored and the store
\* holds a user with a non-empty role.
C5_AuthenticatedHasTokenAndRole ==
  store.isAuthenticated =>
    /\ token # NoToken
    /\ store.user.present
    /\ store.user.role # ""

\* C6: after the response hook has handled a 401, the token is erased, the
\* store is cleared, /login is being navigated to, the session-expired
\* notification is shown and the error is rejected to the caller.
C6_HookOn401ClearsTokenAndSession ==
  (last.op = "responseHook" /\ last.status = 401) =>
    /\ token = NoToken
    /\ store = EmptyStore
    /\ hrefs.hook >= 1
    /\ toasts >= 1
    /\ last.toast = "sessionExpired"
    /\ last.res = "rejected"

\* C7: however many requests of a page are answered 401, the page shows one
\* session-expired notification and sets the location to /login once.
C7_One401NotificationAndNavigation ==
  /\ toasts <= 1
  /\ hrefs.hook <= 1

C9_RehydrationOutcomes ==
  LET ended == last.op = "attemptRehydrate" /\ last.res # "noToken"
      good == last.res = "fulfilled" /\ last.user.present /\ last.user.role # ""
  IN
  /\ (ended /\ ~good) => (store = EmptyStore /\ token = NoToken)
  /\ (ended /\ good) => (store.isAuthenticated /\ store.user = last.user)
  /\ ended => ~isInitializing

C9_Witness ==
  /\ last.op = "attemptRehydrate"
  /\ last.res = "rejected"
  /\ store = EmptyStore
  /\ token = NoToken
  /\ ~isInitializing

----------------------------------------------------------------------------
(* Properties of the auth store (StoreSpec) *)

\* C10: clearAuth leaves isAuthenticated false, the user absent and
\* selectedCompanyId absent from every store state, in one update, and a
\* second clearAuth changes nothing.
C10_ClearAuthTotalAndIdempotent ==
  /\ last.op = "clearAuth" => (store = EmptyStore /\ clearAuth(store) = store)
  /\ clearAuth(clearAuth(store)) = clearAuth(store)
  /\ clearAuth(store) = EmptyStore

C10_Witness ==
  /\ last.op = "clearAuth"
  /\ last.pre.isAuthenticated
  /\ last.pre.user.present
  /\ last.pre.selectedCompanyId = "T2"
  /\ store = EmptyStore

----------------------------------------------------------------------------
(* Properties of the requests and of the session's company (Spec) *)

\* C11: every request a screen sends carries the token that storage holds
\* at send time as its Authorization header, and no Authorization header
\* when storage holds no token.
C11_RequestCarriesStoredToken ==
  last.op = "request" => last.res = token

\* C12: an authenticated admin or employee session with no login or
\* rehydration in progress has selectedCompanyId equal to the user's own
\* company_id, and a company is chosen through company selection by a
\* superAdmin session only.
C12_CompanyOfAdminAndEmployeeIsOwn ==
  /\ (/\ store.isAuthenticated
      /\ store.user.present
      /\ store.user.role \in {"admin", "employee"}
      /\ Calls = {}) =>
       store.selectedCompanyId = store.user.company_id
  /\ last.op = "handleCompanySelect" =>
       (store.user.role = "superAdmin" /\ store.selectedCompanyId = last.res)

C12_Witness ==
  /\ last.op = "attemptRehydrate"
  /\ last.res = "fulfilled"
  /\ Calls = {}
  /\ store.isAuthenticated
  /\ store.user.role = "admin"
  /\ store.selectedCompanyId = "T1"

\* C13: a sign-in answered with an admin of company T1 ends authenticated
\* with that user, selectedCompanyId T1, the token stored and the page at
\* /admin/analytics-dashboard; answered with a superAdmin it ends with
\* selectedCompanyId absent and the page at /admin/select-company.
C13_LoginEndsSignedIn ==
  (last.op = "handleSubmit" /\ last.user.present) =>
    /\ last.user.role \in {"admin", "superAdmin"} =>
         /\ store.isAuthenticated
         /\ store.user = last.user
         /\ token \in IssuedTokens
    /\ last.user.role = "admin" =>
         /\ store.selectedCompanyId = last.user.company_id
         /\ location = "/admin/analytics-dashboard"
    /\ last.user.role = "superAdmin" =>
         /\ store.selectedCompanyId = Absent
         /\ location = "/admin/select-company"

C13_Witness ==
  /\ last.op = "handleSubmit"
  /\ last.user = MkUser("admin", "T1", Absent)
  /\ store.isAuthenticated
  /\ store.selectedCompanyId = "T1"
  /\ token = "t2"
  /\ location = "/admin/analytics-dashboard"

----------------------------------------------------------------------------
(* Properties of logout (LogoutSpec) *)

\* C14: logout, from every state of token, default header and store, leaves
\* no token in storage, no default Authorization header, the store empty
\* and window.location.href set to /login; every request sent after it
\* leaves without Authorization header.
C14_LogoutClearsEverything ==
  /\ last.op = "logout" =>
       /\ token = NoToken
       /\ defaultAuth = NoToken
       /\ store = EmptyStore
       /\ hrefs.logout = 1
  /\ (hrefs.logout > 0 /\ last.op = "request") => last.res = NoToken

C14_Witness ==
  /\ hrefs.logout = 1
  /\ last.op = "request"
  /\ last.res = NoToken
  /\ pending = MaxRequests
  /\ store = EmptyStore

----------------------------------------------------------------------------
(* Properties of the response interceptor (HookSpec) *)

C16_ValidationMessageNonEmpty ==
  /\ (last.op = "responseHook" /\ last.status = 422) =>
       (last.shown = 1 /\ Len(last.text) > 0)
  /\ \A d \in Details : Len(shownFor422(d)) > 0

C16_Witness ==
  /\ last.op = "responseHook"
  /\ last.status = 422
  /\ last.text = "Name is required; Field required"

----------------------------------------------------------------------------
(* Properties of the query cache (QuerySpec) *)

\* C17: once the most recently made call of a query key has been answered,
\* the cached data of the key is that call's response, whatever answers of
\* earlier calls arrive afterwards.
C17_LatestResponseWins ==
  \A k \in QueryKeys :
    (queries[k].issued > 0 /\ queries[k].issued \notin queries[k].inflight) =>
      queries[k].data = queries[k].issued

C17_Witness ==
  /\ last.op = "queryResolve"
  /\ last.res = "dropped"
  /\ last.status = 2
  /\ queries[last.key].issued = 3
  /\ queries[last.key].data = 3
  /\ queries[last.key].inflight = {}

\* C18: observers that ask for the same key while a call for it is awaited
\* share one network call, and all of them are served that call's response.
C18_ConcurrentFetchesShareOneCall ==
  /\ \A k \in QueryKeys :
       ~queries[k].refetched =>
         /\ Cardinality(queries[k].inflight) <= 1
         /\ queries[k].waiting # {} => queries[k].inflight = {queries[k].current}
  /\ (last.op = "queryResolve" /\ last.observers # {}) =>
       /\ last.res = "applied"
       /\ queries[last.key].data = last.status
       /\ queries[last.key].waiting = {}

C18_Witness ==
  /\ last.op = "queryResolve"
  /\ last.observers = Observers
  /\ queries[last.key].issued = 1
  /\ queries[last.key].data = 1

\* C19: after a successful ticket mutation every cached ticket-list query
\* and the cached detail query of the mutated ticket are invalidated.
C19_MutationInvalidatesTicketQueries ==
  last.op = "mutation" =>
    \A k \in QueryKeys :
      (Cached(queries[k]) /\ (k.kind = "allTickets" \/ k = last.key)) =>
        queries[k].invalidated

----------------------------------------------------------------------------
(* Properties of getTickets (PageSpec) *)

\* C20: for every page >= 1 with a limit >= 1 or without limit, getTickets
\* sends offset = (page - 1) * limit, with 15 for a missing limit, and does
\* not send page; page 3 with limit 15 gives offset 30.
C20_OffsetFromPage ==
  (/\ last.op = "getTickets"
   /\ last.params.page.defined
   /\ last.params.page.n >= 1
   /\ last.params.limit.defined => last.params.limit.n >= 1) =>
    /\ ~last.wire.page.defined
    /\ last.wire.offset.defined
    /\ last.wire.limit = last.params.limit
    /\ last.params.limit.defined =>
         last.wire.offset.n = (last.params.page.n - 1) * last.params.limit.n
    /\ ~last.params.limit.defined =>
         last.wire.offset.n = (last.params.page.n - 1) * 15
    /\ (last.params.page.n = 3 /\ last.params.limit = Num(15)) =>
         last.wire.offset.n = 30

C20_Witness ==
  /\ last.op = "getTickets"
  /\ last.params.page = Num(3)
  /\ last.params.limit = Num(15)
  /\ last.wire.offset = Num(30)
  /\ ~last.wire.page.defined

----------------------------------------------------------------------------
(* Properties of the screens of the session (Spec) *)

\* C22: when the ticket list is rendered for an authenticated employee
\* without department_id, the page shows the missing-department
\* notification and redirects to /login instead of rendering the table.
C22_EmployeeWithoutDepartmentIsSentToLogin ==
  (/\ last.op = "AllTicketsPage"
   /\ last.user.role = "employee"
   /\ last.user.department_id = Absent) =>
    /\ last.out = NavigateTo("/login", Absent)
    /\ last.toast = "noDepartment"
    /\ last.shown = 1
    /\ location = "/login"

C22_Witness ==
  /\ last.op = "AllTicketsPage"
  /\ last.pre.isAuthenticated
  /\ last.user = MkUser("employee", "T1", Absent)
  /\ last.prePath = "/tickets"
  /\ location = "/login"
  /\ store.isAuthenticated

\* C23: an authenticated employee who navigates to /employee/dashboard is
\* admitted by the guard and shown the dashboard: the render of that route
\* ends in no redirect.
C23_EmployeeDashboardIsShown ==
  (/\ last.op \in {"ProtectedRoute", "AdminAnalyticsDashboardPage"}
   /\ last.pre.isAuthenticated
   /\ last.user.role = "employee"
   /\ last.prePath = "/employee/dashboard") =>
    /\ last.out = Children
    /\ location = "/employee/dashboard"

----------------------------------------------------------------------------
(* Properties of the signup form (SignupSpec) *)

----------------------------------------------------------------------------
(* Properties of the ticket list (ListSpec) *)

\* C25: clearFilters, from any filter state, restores the initial defaults:
\* page 1, limit 15, empty search, sortBy created_at, sortOrder desc and no
\* status, priority or department filter.
C25_ClearFiltersRestoresDefaults ==
  last.op = "clearFilters" =>
    filters = [page |-> 1, limit |-> 15, search |-> "",
               sortBy |-> "created_at", sortOrder |-> "desc",
               status |-> Absent, priority |-> Absent, departmentId |-> Absent]

C25_Witness ==
  /\ last.op = "clearFilters"
  /\ last.filters.page = 2
  /\ last.filters.search = "vpn"
  /\ last.filters.sortBy = "priority"
  /\ last.filters.sortOrder = "asc"
  /\ last.filters.status = "open"
  /\ last.filters.departmentId = "D2"
  /\ filters.page = 1

C30_PageStaysInRange ==
  /\ filters.page >= 1
  /\ last.op \in {"handleFilterChange", "handleSort"} => filters.page = 1
  /\ last.op = "nextPage" => filters.page <= ticketsQuery.data.totalPages

C30_Witness ==
  /\ last.op = "nextPage"
  /\ last.filters.page = 3
  /\ ticketsQuery.data.totalPages = 2
  /\ filters.page = 2

----------------------------------------------------------------------------
(* Properties of sign-in failures (Spec) *)

\* C26: when the backend accepts the credentials of an employee without
\* department_id, the sign-in page rejects the session: afterwards
\* isAuthenticated is false, the user and selectedCompanyId are absent and
\* no token remains in storage.
C26_RejectedEmployeeLeavesNothing ==
  (/\ last.op = "handleSubmit"
   /\ last.user.present
   /\ last.user.role = "employee"
   /\ last.user.department_id = Absent) =>
    /\ ~store.isAuthenticated
    /\ ~store.user.present
    /\ store.selectedCompanyId = Absent
    /\ token = NoToken

\* C27: a login that fails, by a rejected request or by a response without
\* usable content, leaves no token, no default Authorization header and a
\* reset store, and throws; the sign-in page is not left authenticated.
C27_FailedLoginLeavesNothing ==
  /\ (/\ last.op = "login"
      /\ last.res \in {"returned", "thrown"}
      /\ (last.status # 200 \/ ~last.user.present)) =>
       /\ last.res = "thrown"
       /\ token = NoToken
       /\ defaultAuth = NoToken
       /\ store = EmptyStore
  /\ (last.op = "handleSubmit" /\ ~last.user.present) => ~store.isAuthenticated

----------------------------------------------------------------------------
(* Properties of the application start (StartSpec) *)

\* C29: with every /auth/me request answered, the app always eventually
\* leaves the initializing state, and the rehydration attempts and forced
\* reloads come to an end: eventually the app stays initialized with no
\* /auth/me request in flight and no reload pending.
C29_StartEventuallySettles ==
  /\ isInitializing ~> ~isInitializing
  /\ <>[](~isInitializing /\ calls = EmptyBag /\ ~Unloading)

C29_Witness ==
  /\ last.op = "attemptRehydrate"
  /\ last.res = "rejected"
  /\ hrefs.hook = 1
  /\ token = NoToken
  /\ ~isInitializing
  /\ calls = EmptyBag

====
